---- MODULE Spec2Model ----
(***************************************************************************)
(* Image ingestion and storage lifecycle of the blogging backend:          *)
(* create-post, edit-post and delete-post against the posts table and the  *)
(* Supabase storage bucket.  Request handlers are cut into one step per    *)
(* awaited call that touches shared state (a SQL statement, a storage      *)
(* call); the synchronous code between two awaits belongs to the step      *)
(* that precedes it.  Strings that the code parses or composes (file       *)
(* names, storage keys, public URLs) are sequences of one-character        *)
(* strings.                                                                *)
(***************************************************************************)
EXTENDS Integers, Sequences, FiniteSets, TLC

\* ------------------------------------------------------------------ bounds
\* submit events on one create-post page
MaxSubmits == 2

MaxNow == 1
MaxPosts == 1
MaxRequests == 2

\* ------------------------------------------------------- program constants
MaxUploadBytes == 10485760

\* the size limit of the create-post page script
MAX_BYTES == 10485760

NoUser == 0
Users == {1, 2}
\* the ids the posts table can hand out in any of the specifications
PostIds == 1..(MaxPosts + 1)
Reqs == {1, 2}

\* ------------------------------------------------------------ string tools
Null == << >>

SLASH == <<"/">>

POSTS_PREFIX == <<"p", "o", "s", "t", "s", "/">>

PUBLIC == <<"p", "u", "b", "l", "i", "c">>

supabaseUrl == <<"https://project.supabase.co">>

supabaseBucket == <<"u", "p", "l", "o", "a", "d", "s">>

PublicPath == <<"/", "s", "t", "o", "r", "a", "g", "e", "/", "v", "1", "/", "o", "b", "j", "e", "c", "t", "/">> \o PUBLIC \o SLASH

SafeChars == {"a", "b", "c", "d", "e", "f", "g", "h", "i", "j", "k", "l", "m", "n", "o", "p", "q", "r", "s", "t", "u", "v", "w", "x", "y", "z", "A", "B", "C", "D", "E", "F", "G", "H", "I", "J", "K", "L", "M", "N", "O", "P", "Q", "R", "S", "T", "U", "V", "W", "X", "Y", "Z", "0", "1", "2", "3", "4", "5", "6", "7", "8", "9", "-", "_"}

UpperChars == <<"A", "B", "C", "D", "E", "F", "G", "H", "I", "J", "K", "L", "M", "N", "O", "P", "Q", "R", "S", "T", "U", "V", "W", "X", "Y", "Z">>

LowerChars == <<"a", "b", "c", "d", "e", "f", "g", "h", "i", "j", "k", "l", "m", "n", "o", "p", "q", "r", "s", "t", "u", "v", "w", "x", "y", "z">>

DigitChars == <<"0", "1", "2", "3", "4", "5", "6", "7", "8", "9">>

toLowerChar(c) ==
    IF \E i \in 1..26 : UpperChars[i] = c
    THEN LowerChars[CHOOSE i \in 1..26 : UpperChars[i] = c]
    ELSE c

toLowerCase(s) == [i \in 1..Len(s) |-> toLowerChar(s[i])]

RECURSIVE NatToStr(_)
NatToStr(n) ==
    IF n < 10 THEN <<DigitChars[n + 1]>>
    ELSE NatToStr(n \div 10) \o <<DigitChars[(n % 10) + 1]>>

\* index (1-based) of the last occurrence of c in s, 0 when there is none
LastIndexOf(s, c) ==
    IF \E i \in 1..Len(s) : s[i] = c
    THEN CHOOSE i \in 1..Len(s) : s[i] = c /\ \A j \in (i + 1)..Len(s) : s[j] # c
    ELSE 0

\* index (1-based) of the first occurrence of c in s, 0 when there is none
FirstIndexOf(s, c) ==
    IF \E i \in 1..Len(s) : s[i] = c
    THEN CHOOSE i \in 1..Len(s) : s[i] = c /\ \A j \in 1..(i - 1) : s[j] # c
    ELSE 0

EndsWith(s, suffix) ==
    /\ Len(suffix) <= Len(s)
    /\ SubSeq(s, Len(s) - Len(suffix) + 1, Len(s)) = suffix

\* String.prototype.split(sep) for a one-character separator
RECURSIVE Split(_, _)
Split(s, sep) ==
    LET i == FirstIndexOf(s, sep)
    IN  IF i = 0 THEN <<s>>
        ELSE <<SubSeq(s, 1, i - 1)>> \o Split(SubSeq(s, i + 1, Len(s)), sep)

\* Array.prototype.join(sep)
RECURSIVE Join(_, _)
Join(parts, sep) ==
    IF Len(parts) = 0 THEN << >>
    ELSE IF Len(parts) = 1 THEN parts[1]
    ELSE parts[1] \o <<sep>> \o Join(Tail(parts), sep)

\* Array.prototype.indexOf, 0-based, -1 when absent
IndexOf(parts, x) ==
    IF \E i \in 1..Len(parts) : parts[i] = x
    THEN (CHOOSE i \in 1..Len(parts) : parts[i] = x /\ \A j \in 1..(i - 1) : parts[j] # x) - 1
    ELSE -1

\* Array.prototype.slice(from), 0-based
Slice(parts, from) == SubSeq(parts, from + 1, Len(parts))

\* ------------------------------------------------------ storage key resolver
\* path.basename(name) with no suffix argument: the part after the last '/'
LastSegment(name) == SubSeq(name, LastIndexOf(name, "/") + 1, Len(name))

\* path.extname: from the last '.' of the last path segment to its end;
\* empty when there is no '.' or the only '.' is the first character
extname(name) ==
    LET b == LastSegment(name)
        i == LastIndexOf(b, ".")
    IN  IF i <= 1 THEN << >> ELSE SubSeq(b, i, Len(b))

\* path.basename(name, ext): the last segment, with ext cut off when the
\* segment ends with exactly ext (case-sensitive) and is longer than ext
basename(name, ext) ==
    LET b == LastSegment(name)
    IN  IF Len(ext) > 0 /\ Len(b) > Len(ext) /\ EndsWith(b, ext)
        THEN SubSeq(b, 1, Len(b) - Len(ext))
        ELSE b

\* .replace(/[^a-z0-9-_]/gi, "_")
sanitizeBase(s) == [i \in 1..Len(s) |-> IF s[i] \in SafeChars THEN s[i] ELSE "_"]

deriveKey(originalname, t) ==
    LET extension == toLowerCase(extname(originalname))
        safeBase == sanitizeBase(basename(originalname, extension))
    IN  POSTS_PREFIX \o NatToStr(t) \o <<"_">> \o safeBase \o extension

getPublicUrl(key) == supabaseUrl \o PublicPath \o supabaseBucket \o SLASH \o key

\* new URL(u).pathname: u must begin with an origin; the path ends at the
\* first '?' or '#'; a space in it is percent-encoded; an empty path reads
\* as "/".  A result of Null stands for the TypeError the constructor throws.
UrlOk(u) == Len(u) >= 1 /\ <<u[1]>> = supabaseUrl

CutAt(s, c) == IF FirstIndexOf(s, c) = 0 THEN s ELSE SubSeq(s, 1, FirstIndexOf(s, c) - 1)

RECURSIVE PercentEncode(_)
PercentEncode(s) ==
    IF s = << >> THEN << >>
    ELSE (IF Head(s) = " " THEN <<"%", "2", "0">> ELSE <<Head(s)>>) \o PercentEncode(Tail(s))

pathname(u) ==
    LET p == PercentEncode(CutAt(CutAt(Tail(u), "?"), "#"))
    IN  IF p = << >> THEN SLASH ELSE p

\* extractStorageKey without the check that the marker segment was found
extractStorageKey_NoMarkerCheck(publicUrl) ==
    IF publicUrl = Null THEN Null
    ELSE IF ~UrlOk(publicUrl) THEN Null
    ELSE LET parts == Split(pathname(publicUrl), "/")
             idx == IndexOf(parts, PUBLIC)
         IN  IF Len(parts) > idx + 2
             THEN Join(Slice(parts, idx + 2), "/")
             ELSE Null

extractStorageKey(publicUrl) ==
    IF publicUrl = Null THEN Null
    ELSE IF ~UrlOk(publicUrl) THEN Null
    ELSE LET parts == Split(pathname(publicUrl), "/")
             idx == IndexOf(parts, PUBLIC)
         IN  IF idx >= 0 /\ Len(parts) > idx + 2
             THEN Join(Slice(parts, idx + 2), "/")
             ELSE Null

\* ------------------------------------------------------------------- inputs
NAME_A == <<"a", ".", "j", "p", "g">>

NAME_B == <<"b", ".", "j", "p", "g">>

\* a name with no image extension: "Dr. S"
NAME_DR_S == <<"D", "r", ".", " ", "S">>

\* a name with its extension in capitals: "P.JPG"
NAME_P_JPG == <<"P", ".", "J", "P", "G">>

Names == {NAME_A}

\* MIME types, cut after the first '/'
IMAGE_JPEG == <<"image/", "jpeg">>

IMAGE_JPG == <<"image/", "jpg">>

IMAGE_PNG == <<"image/", "png">>

IMAGE_WEBP == <<"image/", "webp">>

IMAGE_GIF == <<"image/", "gif">>

TEXT_PLAIN == <<"text/", "plain">>

\* the file part of the multipart body: fieldname is the form field it came
\* in, size the length of file.buffer, mimetype the type the client
\* declared, decodable whether sharp can read and re-encode the bytes
NoFile == [present |-> FALSE, fieldname |-> "", originalname |-> << >>, size |-> 0, mimetype |-> << >>, decodable |-> FALSE]

Files == {NoFile} \cup [present : {TRUE}, fieldname : {"image"}, originalname : Names, size : {204800, MaxUploadBytes + 1}, mimetype : {IMAGE_JPEG}, decodable : {TRUE}]

\* a JPEG photo of 200 KB under the given name
Photo(originalname) == [present |-> TRUE, fieldname |-> "image", originalname |-> originalname, size |-> 204800, mimetype |-> IMAGE_JPEG, decodable |-> TRUE]

\* upload.single("image") with limits.fileSize: multer raises a MulterError
\* for a file in any other field (LIMIT_UNEXPECTED_FILE) and for a file over
\* the limit (LIMIT_FILE_SIZE)
MulterRejects(file) ==
    file.present /\ (file.fieldname # "image" \/ file.size > MaxUploadBytes)

\* title and body as submitted; "" also stands for a missing field
Forms == {<<"", "B">>, <<"T", "B">>, <<"U", "C">>}

\* --------------------------------------------------------- image transcoder
\* a byte buffer: which bytes they are, the image format they are in, how
\* many they are, and whether sharp can decode them
NoBuffer == [content |-> "none", format |-> << >>, length |-> 0, decodable |-> FALSE]

\* file.buffer
Buffer(file) == [content |-> "original", format |-> file.mimetype, length |-> file.size, decodable |-> file.decodable]

\* the output of sharp's .jpeg() / .png() / .webp() encoder followed by
\* .toBuffer(): other bytes, in the encoder's format (their length plays
\* no part in what follows)
Encoded(buffer, format) == [content |-> "reencoded", format |-> format, length |-> buffer.length \div 2, decodable |-> TRUE]

\* mimetype.startsWith('image/')
IsImageType(mimetype) == Len(mimetype) >= 1 /\ mimetype[1] = "image/"

CompressThreshold == 100000

\* the encoder compressImage picks for a declared type
EncoderFor(mimetype) ==
    IF mimetype = IMAGE_JPEG \/ mimetype = IMAGE_JPG THEN IMAGE_JPEG
    ELSE IF mimetype = IMAGE_PNG THEN IMAGE_PNG
    ELSE IF mimetype = IMAGE_WEBP THEN IMAGE_WEBP
    ELSE IMAGE_JPEG

\* compressImage re-encoding images of any length
compressImage_NoThreshold(buffer, mimetype) ==
    IF ~IsImageType(mimetype) THEN buffer
    ELSE IF ~buffer.decodable THEN buffer
    ELSE Encoded(buffer, EncoderFor(mimetype))

\* sharp throws on bytes it cannot decode (at metadata() or at toBuffer());
\* the catch returns the buffer it was given
compressImage(buffer, mimetype) ==
    IF ~IsImageType(mimetype) THEN buffer
    ELSE IF ~buffer.decodable THEN buffer
    ELSE IF buffer.length < CompressThreshold THEN buffer
    ELSE Encoded(buffer, EncoderFor(mimetype))

\* what upload(key, body, {contentType}) leaves in the bucket
StoredObject(body, contentType) == [body |-> body, contentType |-> contentType]

\* uploads of every kind compressImage and the key derivation tell apart:
\* a JPEG just below and one at the threshold, a GIF (under a name with no
\* image extension), a PNG sharp cannot decode, a text file, and a file
\* over the size limit
UploadFiles ==
    {[Photo(NAME_A) EXCEPT !.size = CompressThreshold - 1],
     [Photo(NAME_A) EXCEPT !.size = CompressThreshold],
     [Photo(NAME_DR_S) EXCEPT !.mimetype = IMAGE_GIF],
     [Photo(NAME_A) EXCEPT !.mimetype = IMAGE_PNG, !.decodable = FALSE],
     [Photo(NAME_A) EXCEPT !.mimetype = TEXT_PLAIN, !.decodable = FALSE],
     [Photo(NAME_A) EXCEPT !.size = MaxUploadBytes + 1]}

\* photos under two names, and one file over the size limit
ShareFiles == (Files \ {NoFile}) \cup {Photo(NAME_B)}

\* a photo, a photo from a camera that names its files in capitals, and a
\* photo sent in a form field other than "image"
OddFiles == {Photo(NAME_A), Photo(NAME_P_JPG), [Photo(NAME_A) EXCEPT !.fieldname = "avatar"]}

\* the files the clients of a deployment send, by the name of the set
FilesOf(name) ==
    IF name = "Files" THEN Files
    ELSE IF name = "ShareFiles" THEN ShareFiles
    ELSE IF name = "OddFiles" THEN OddFiles
    ELSE UploadFiles

\* -------------------------------------------------------------------- state
VARIABLES supabase, posts, nextId, store, objects, now, inflight, done, started, quota, capacity, clientFiles, tracing, page

vars == <<supabase, posts, nextId, store, objects, now, inflight, done, started, quota, capacity, clientFiles, tracing, page>>

NoRow == [present |-> FALSE, title |-> "", body |-> "", authorid |-> 0, imageurl |-> Null]

LegacyRow == [present |-> TRUE, title |-> "T", body |-> "B", authorid |-> 1, imageurl |-> Null]

NoRes == [kind |-> "none", status |-> 0, to |-> "", toId |-> 0, view |-> "", errors |-> << >>, imageErrors |-> << >>, title |-> "", body |-> "", post |-> NoRow]

Idle == [pc |-> "idle", type |-> "none", user |-> NoUser, id |-> 0, title |-> "", body |-> "", file |-> NoFile, post |-> NoRow, key |-> Null, buffer |-> NoBuffer, newImageUrl |-> Null, calls |-> << >>]

NoDone == [type |-> "none", user |-> NoUser, id |-> 0, title |-> "", body |-> "", file |-> NoFile, post |-> NoRow, key |-> Null, buffer |-> NoBuffer, newImageUrl |-> Null, calls |-> << >>, res |-> NoRes, peers |-> {}]

\* the create-post page in a browser, as its script sees it: the file the
\* script holds as selected, the URL its direct upload returned, the submit
\* button, the draft in localStorage, the hidden imageUrl inputs of the form,
\* the text of the upload error element, the await the submit handler is at,
\* the upload steps that have succeeded since the handler began, the number
\* of submit events so far, and the submission that left the page
NoSubmission == [how |-> "none", imageUrl |-> << >>]

\* e.target.files[0] of the file input: nothing picked
NoPick == [name |-> "", type |-> << >>, size |-> 0]

NoPage == [pc |-> "closed", selectedFile |-> NoPick, uploadedImageUrl |-> "null", disabled |-> FALSE, draft |-> FALSE, hidden |-> << >>, error |-> "", log |-> << >>, submits |-> 0, sent |-> NoSubmission]

\* the tables as createTables leaves them, empty or holding a post that
\* predates the imageurl column; n requests will be served, which send the
\* files of Files and fill the table up to MaxPosts rows
InitFor(n) ==
    /\ supabase \in BOOLEAN
    /\ \/ posts = [i \in PostIds |-> NoRow] /\ nextId = 1
       \/ posts = [i \in PostIds |-> IF i = 1 THEN LegacyRow ELSE NoRow] /\ nextId = 2
    /\ store = {}
    /\ objects = << >>
    /\ clientFiles = "Files"
    /\ capacity = MaxPosts
    /\ now = 0
    /\ inflight = [r \in Reqs |-> Idle]
    /\ done = NoDone
    /\ started = 0
    /\ quota = n
    /\ tracing = FALSE
    /\ page = NoPage

Init == InitFor(MaxRequests)

\* one request more, for the races that take three
InitRace == InitFor(MaxRequests + 1)

\* ---------------------------------------------------------------- responses
MSG_TITLE == "provide a title"

MSG_BODY == "provide content"

MSG_NEED_IMAGE == "Upload an image for this post."

MSG_TOO_LARGE == "Selected image is too large. Maximum allowed size is 10 MB."

MSG_UPLOAD_FAILED == "Image upload failed. Please try again."

MSG_INTERNAL == "An internal error occurred. Please try again later."

Redirect(to, id) == [NoRes EXCEPT !.kind = "redirect", !.status = 302, !.to = to, !.toId = id]

Render(view, status, errors, imageErrors, title, body, post) ==
    [NoRes EXCEPT !.kind = "render", !.status = status, !.view = view, !.errors = errors, !.imageErrors = imageErrors, !.title = title, !.body = body, !.post = post]

\* no response is ever sent: the async handler's promise was rejected
Unanswered == [NoRes EXCEPT !.kind = "unhandled"]

\* share(req): the error list for the trimmed, tag-stripped title and body
share(title, body) ==
    (IF title = "" THEN <<MSG_TITLE>> ELSE << >>) \o (IF body = "" THEN <<MSG_BODY>> ELSE << >>)

Call(op, key, ok) == [op |-> op, key |-> key, ok |-> ok]

NewReq(type, user, id, form, file) ==
    [Idle EXCEPT !.type = type, !.user = user, !.id = id, !.title = form[1], !.body = form[2], !.file = file]

\* a new request arrives and takes the first free slot
Arrive(r) ==
    /\ started < quota
    /\ inflight[r] = Idle
    /\ \A o \in Reqs : inflight[o] = Idle => ~(o < r)
    /\ started' = started + 1

\* the request in slot r ends: its response and call record become `done`;
\* where requests are traced, the record also names the slots whose requests
\* were still in flight at that moment
Finish(r, q, res) ==
    /\ done' = [type |-> q.type, user |-> q.user, id |-> q.id, title |-> q.title, body |-> q.body, file |-> q.file, post |-> q.post, key |-> q.key, buffer |-> q.buffer, newImageUrl |-> q.newImageUrl, calls |-> q.calls, res |-> res, peers |-> IF tracing THEN {o \in Reqs \ {r} : inflight[o].pc # "idle"} ELSE {}]
    /\ inflight' = [inflight EXCEPT ![r] = Idle]

\* the request in slot r goes on to await the call named pc
Await(r, q, pc) ==
    /\ inflight' = [inflight EXCEPT ![r] = [q EXCEPT !.pc = pc]]
    /\ UNCHANGED done

\* Date.now() advances
Tick ==
    /\ now < MaxNow
    /\ now' = now + 1
    /\ UNCHANGED <<supabase, posts, nextId, store, objects, inflight, done, started, quota, capacity, clientFiles, tracing, page>>

\* ------------------------------------------------------------- create-post
AddCall(q, op, key, ok) == [q EXCEPT !.calls = Append(@, Call(op, key, ok))]

CreatesInFlight == Cardinality({r \in Reqs : inflight[r].type = "create"})

\* mustBeLoggedIn turns an anonymous request away
CreateNotLoggedIn(r) ==
    /\ Arrive(r)
    /\ Finish(r, NewReq("create", NoUser, 0, <<"", "">>, NoFile), Redirect("/", 0))
    /\ UNCHANGED <<supabase, posts, nextId, store, objects, now, quota, capacity, clientFiles, tracing, page>>

\* CreateTooLarge answering with the generic upload message
CreateTooLarge_GenericMessage(r, user, form, file) ==
    /\ Arrive(r)
    /\ MulterRejects(file)
    /\ Finish(r, NewReq("create", user, 0, form, file),
              Render("create-post", 400, << >>, <<MSG_UPLOAD_FAILED>>, form[1], form[2], NoRow))
    /\ UNCHANGED <<supabase, posts, nextId, store, objects, now, quota, capacity, clientFiles, tracing, page>>

\* multer rejects the file; multerErrorHandler answers any MulterError with
\* the message for a file that is too large, here for /create-post
CreateTooLarge(r, user, form, file) ==
    /\ Arrive(r)
    /\ MulterRejects(file)
    /\ Finish(r, NewReq("create", user, 0, form, file),
              Render("create-post", 400, << >>, <<MSG_TOO_LARGE>>, form[1], form[2], NoRow))
    /\ UNCHANGED <<supabase, posts, nextId, store, objects, now, quota, capacity, clientFiles, tracing, page>>

\* CreateBegin with the file optional: no file, INSERT with no image
CreateBegin_FileOptional(r, user, form, file) ==
    /\ Arrive(r)
    /\ ~MulterRejects(file)
    /\ LET q == NewReq("create", user, 0, form, file)
           errors == share(form[1], form[2])
       IN  IF errors # << >>
           THEN Finish(r, q, Render("create-post", 200, errors, << >>, form[1], form[2], NoRow))
           ELSE IF ~file.present
           THEN /\ nextId + CreatesInFlight <= capacity
                /\ Await(r, q, "insert")
           ELSE IF ~supabase
           THEN Finish(r, q, Render("create-post", 200, << >>, <<MSG_UPLOAD_FAILED>>, form[1], form[2], NoRow))
           ELSE /\ nextId + CreatesInFlight <= capacity
                /\ Await(r, q, "transcode")
    /\ UNCHANGED <<supabase, posts, nextId, store, objects, now, quota, capacity, clientFiles, tracing, page>>

\* CreateBegin with the upload started before title and body are validated
CreateBegin_UploadsFirst(r, user, form, file) ==
    /\ Arrive(r)
    /\ ~MulterRejects(file)
    /\ LET q == NewReq("create", user, 0, form, file)
           errors == share(form[1], form[2])
       IN  IF file.present /\ supabase
           THEN /\ nextId + CreatesInFlight <= capacity
                /\ Await(r, q, "transcode")
           ELSE IF errors # << >>
           THEN Finish(r, q, Render("create-post", 200, errors, << >>, form[1], form[2], NoRow))
           ELSE IF ~file.present
           THEN Finish(r, q, Render("create-post", 200, << >>, <<MSG_NEED_IMAGE>>, form[1], form[2], NoRow))
           ELSE Finish(r, q, Render("create-post", 200, << >>, <<MSG_UPLOAD_FAILED>>, form[1], form[2], NoRow))
    /\ UNCHANGED <<supabase, posts, nextId, store, objects, now, quota, capacity, clientFiles, tracing, page>>

\* the handler up to the awaited compressImage in uploadToSupabase
CreateBegin(r, user, form, file) ==
    /\ Arrive(r)
    /\ ~MulterRejects(file)
    /\ LET q == NewReq("create", user, 0, form, file)
           errors == share(form[1], form[2])
       IN  IF errors # << >>
           THEN Finish(r, q, Render("create-post", 200, errors, << >>, form[1], form[2], NoRow))
           ELSE IF ~file.present
           THEN Finish(r, q, Render("create-post", 200, << >>, <<MSG_NEED_IMAGE>>, form[1], form[2], NoRow))
           ELSE IF ~supabase
           THEN Finish(r, q, Render("create-post", 200, << >>, <<MSG_UPLOAD_FAILED>>, form[1], form[2], NoRow))
           ELSE /\ nextId + CreatesInFlight <= capacity
                /\ Await(r, q, "transcode")
    /\ UNCHANGED <<supabase, posts, nextId, store, objects, now, quota, capacity, clientFiles, tracing, page>>

\* Transcode with the upload given up when sharp cannot decode the bytes
Transcode_RejectsUndecodable(r) ==
    LET q == inflight[r]
    IN  /\ q.pc = "transcode"
        /\ IF IsImageType(q.file.mimetype) /\ ~q.file.decodable
           THEN Finish(r, q, Render(IF q.type = "create" THEN "create-post" ELSE "edit-post", 200, << >>, <<MSG_UPLOAD_FAILED>>, q.title, q.body, q.post))
           ELSE Await(r, [q EXCEPT !.buffer = compressImage(Buffer(q.file), q.file.mimetype),
                                   !.key = deriveKey(q.file.originalname, now)], "put")
        /\ UNCHANGED <<supabase, posts, nextId, store, objects, now, started, quota, capacity, clientFiles, tracing, page>>

\* uploadToSupabase from the return of compressImage to the awaited upload:
\* the key is derived from the clock as it stands now
Transcode(r) ==
    LET q == inflight[r]
    IN  /\ q.pc = "transcode"
        /\ Await(r, [q EXCEPT !.buffer = compressImage(Buffer(q.file), q.file.mimetype),
                              !.key = deriveKey(q.file.originalname, now)], "put")
        /\ UNCHANGED <<supabase, posts, nextId, store, objects, now, started, quota, capacity, clientFiles, tracing, page>>

\* the bucket after upload(key, compressedBuffer, {contentType: file.mimetype})
\* of request q has stored its object
PutObject(q) ==
    [k \in store \cup {q.key} |-> IF k = q.key THEN StoredObject(q.buffer, q.file.mimetype) ELSE objects[k]]

\* upload(key, ..., {upsert: false}) stores the object under a free key
CreatePutOk(r) ==
    LET q == inflight[r]
    IN  /\ q.type = "create" /\ q.pc = "put"
        /\ q.key \notin store
        /\ store' = store \cup {q.key}
        /\ objects' = PutObject(q)
        /\ Await(r, [AddCall(q, "put", q.key, TRUE) EXCEPT !.newImageUrl = getPublicUrl(q.key)], "insert")
        /\ UNCHANGED <<supabase, posts, nextId, now, started, quota, capacity, clientFiles, tracing, page>>

\* CreatePutFail going on to the INSERT with no image
CreatePutFail_InsertsAnyway(r) ==
    LET q == inflight[r]
    IN  /\ q.type = "create" /\ q.pc = "put"
        /\ Await(r, AddCall(q, "put", q.key, FALSE), "insert")
        /\ UNCHANGED <<supabase, posts, nextId, store, objects, now, started, quota, capacity, clientFiles, tracing, page>>

\* the upload reports an error (remote failure, or the key is taken)
CreatePutFail(r) ==
    LET q == inflight[r]
    IN  /\ q.type = "create" /\ q.pc = "put"
        /\ Finish(r, AddCall(q, "put", q.key, FALSE),
                  Render("create-post", 200, << >>, <<MSG_UPLOAD_FAILED>>, q.title, q.body, NoRow))
        /\ UNCHANGED <<supabase, posts, nextId, store, objects, now, started, quota, capacity, clientFiles, tracing, page>>

\* NewRow without the uploaded URL
NewRow_NoImage(q) == [present |-> TRUE, title |-> q.title, body |-> q.body, authorid |-> q.user, imageurl |-> Null]

NewRow(q) == [present |-> TRUE, title |-> q.title, body |-> q.body, authorid |-> q.user, imageurl |-> q.newImageUrl]

CreateInsertOk(r) ==
    LET q == inflight[r]
    IN  /\ q.type = "create" /\ q.pc = "insert"
        /\ nextId <= capacity
        /\ posts' = [posts EXCEPT ![nextId] = NewRow(q)]
        /\ nextId' = nextId + 1
        /\ Finish(r, [AddCall(q, "insert", Null, TRUE) EXCEPT !.id = nextId], Redirect("/post/", nextId))
        /\ UNCHANGED <<supabase, store, objects, now, started, quota, capacity, clientFiles, tracing, page>>

\* the INSERT throws; nothing in the handler catches it
CreateInsertFail(r) ==
    LET q == inflight[r]
    IN  /\ q.type = "create" /\ q.pc = "insert"
        /\ Finish(r, AddCall(q, "insert", Null, FALSE), Unanswered)
        /\ UNCHANGED <<supabase, posts, nextId, store, objects, now, started, quota, capacity, clientFiles, tracing, page>>

\* --------------------------------------------------------------- edit-post
\* Owns with the author comparison dropped
Owns_Anyone(post, user) == post.present

Owns(post, user) == post.authorid = user

EditNotLoggedIn(r, id) ==
    /\ Arrive(r)
    /\ Finish(r, NewReq("edit", NoUser, id, <<"", "">>, NoFile), Redirect("/", 0))
    /\ UNCHANGED <<supabase, posts, nextId, store, objects, now, quota, capacity, clientFiles, tracing, page>>

\* multer rejects the file; multerErrorHandler loads the post by id and
\* renders the edit form with it
EditTooLarge(r, user, id, form, file) ==
    /\ Arrive(r)
    /\ MulterRejects(file)
    /\ \E dbOk \in BOOLEAN :
          LET post == IF dbOk THEN posts[id] ELSE NoRow
          IN  Finish(r, [NewReq("edit", user, id, form, file) EXCEPT !.post = post],
                     Render("edit-post", 400, << >>, <<MSG_TOO_LARGE>>, form[1], form[2], post))
    /\ UNCHANGED <<supabase, posts, nextId, store, objects, now, quota, capacity, clientFiles, tracing, page>>

\* the SELECT throws: the catch block reads `post`, which is out of scope
\* there, whenever the submitted title or body is empty
EditSelectFail(r, user, id, form, file) ==
    /\ Arrive(r)
    /\ ~MulterRejects(file)
    /\ LET q == NewReq("edit", user, id, form, file)
       IN  IF form[1] = "" \/ form[2] = ""
           THEN Finish(r, q, Unanswered)
           ELSE Finish(r, q, Render("edit-post", 200, <<MSG_INTERNAL>>, << >>, form[1], form[2], NoRow))
    /\ UNCHANGED <<supabase, posts, nextId, store, objects, now, quota, capacity, clientFiles, tracing, page>>

\* EditBegin with the file optional: with no file, straight to the UPDATE
EditBegin_FileOptional(r, user, id, form, file) ==
    /\ Arrive(r)
    /\ ~MulterRejects(file)
    /\ LET post == posts[id]
           q == [NewReq("edit", user, id, form, file) EXCEPT !.post = post]
           errors == share(form[1], form[2])
       IN  IF ~post.present
           THEN Finish(r, q, Redirect("/", 0))
           ELSE IF ~Owns(post, user)
           THEN Finish(r, q, Redirect("/", 0))
           ELSE IF errors # << >>
           THEN Finish(r, q, Render("edit-post", 200, errors, << >>, form[1], form[2], post))
           ELSE IF ~file.present
           THEN Await(r, [q EXCEPT !.newImageUrl = post.imageurl], "update")
           ELSE IF ~supabase
           THEN Finish(r, q, Render("edit-post", 200, << >>, <<MSG_UPLOAD_FAILED>>, form[1], form[2], post))
           ELSE Await(r, q, "transcode")
    /\ UNCHANGED <<supabase, posts, nextId, store, objects, now, quota, capacity, clientFiles, tracing, page>>

\* EditBegin going on to the UPDATE, with no upload, when the storage
\* client is not configured
EditBegin_SkipsStorage(r, user, id, form, file) ==
    /\ Arrive(r)
    /\ ~MulterRejects(file)
    /\ LET post == posts[id]
           q == [NewReq("edit", user, id, form, file) EXCEPT !.post = post]
           errors == share(form[1], form[2])
       IN  IF ~post.present
           THEN Finish(r, q, Redirect("/", 0))
           ELSE IF ~Owns(post, user)
           THEN Finish(r, q, Redirect("/", 0))
           ELSE IF errors # << >>
           THEN Finish(r, q, Render("edit-post", 200, errors, << >>, form[1], form[2], post))
           ELSE IF ~file.present
           THEN Finish(r, q, Render("edit-post", 200, << >>, <<MSG_NEED_IMAGE>>, form[1], form[2], post))
           ELSE IF ~supabase
           THEN Await(r, q, "update")
           ELSE Await(r, q, "transcode")
    /\ UNCHANGED <<supabase, posts, nextId, store, objects, now, quota, capacity, clientFiles, tracing, page>>

\* the handler from the SELECT up to the awaited compressImage in
\* uploadToSupabase
EditBegin(r, user, id, form, file) ==
    /\ Arrive(r)
    /\ ~MulterRejects(file)
    /\ LET post == posts[id]
           q == [NewReq("edit", user, id, form, file) EXCEPT !.post = post]
           errors == share(form[1], form[2])
       IN  IF ~post.present
           THEN Finish(r, q, Redirect("/", 0))
           ELSE IF ~Owns(post, user)
           THEN Finish(r, q, Redirect("/", 0))
           ELSE IF errors # << >>
           THEN Finish(r, q, Render("edit-post", 200, errors, << >>, form[1], form[2], post))
           ELSE IF ~file.present
           THEN Finish(r, q, Render("edit-post", 200, << >>, <<MSG_NEED_IMAGE>>, form[1], form[2], post))
           ELSE IF ~supabase
           THEN Finish(r, q, Render("edit-post", 200, << >>, <<MSG_UPLOAD_FAILED>>, form[1], form[2], post))
           ELSE Await(r, q, "transcode")
    /\ UNCHANGED <<supabase, posts, nextId, store, objects, now, quota, capacity, clientFiles, tracing, page>>

EditPutOk(r) ==
    LET q == inflight[r]
    IN  /\ q.type = "edit" /\ q.pc = "put"
        /\ q.key \notin store
        /\ store' = store \cup {q.key}
        /\ objects' = PutObject(q)
        /\ Await(r, [AddCall(q, "put", q.key, TRUE) EXCEPT !.newImageUrl = getPublicUrl(q.key)], "update")
        /\ UNCHANGED <<supabase, posts, nextId, now, started, quota, capacity, clientFiles, tracing, page>>

\* EditPutFail with title and body written although the upload failed
EditPutFail_PartialUpdate(r) ==
    LET q == inflight[r]
    IN  /\ q.type = "edit" /\ q.pc = "put"
        /\ posts' = [posts EXCEPT ![q.id] = IF @.present THEN [@ EXCEPT !.title = q.title, !.body = q.body] ELSE @]
        /\ Finish(r, AddCall(q, "put", q.key, FALSE),
                  Render("edit-post", 200, << >>, <<MSG_UPLOAD_FAILED>>, q.title, q.body, q.post))
        /\ UNCHANGED <<supabase, nextId, store, objects, now, started, quota, capacity, clientFiles, tracing, page>>

EditPutFail(r) ==
    LET q == inflight[r]
    IN  /\ q.type = "edit" /\ q.pc = "put"
        /\ Finish(r, AddCall(q, "put", q.key, FALSE),
                  Render("edit-post", 200, << >>, <<MSG_UPLOAD_FAILED>>, q.title, q.body, q.post))
        /\ UNCHANGED <<supabase, posts, nextId, store, objects, now, started, quota, capacity, clientFiles, tracing, page>>

\* UpdatedRow writing the row whether or not it is still there
UpdatedRow_Upsert(row, q) ==
    [present |-> TRUE, title |-> q.title, body |-> q.body, authorid |-> q.user, imageurl |-> q.newImageUrl]

\* UPDATE posts SET title, body, imageurl WHERE id: no row, no change
UpdatedRow(row, q) ==
    IF row.present
    THEN [row EXCEPT !.title = q.title, !.body = q.body, !.imageurl = q.newImageUrl]
    ELSE row

\* the key of the old object, when the best-effort cleanup will ask for
\* its removal; Null when it will not
OldKeyToRemove(q) ==
    IF q.post.imageurl # Null /\ supabase THEN extractStorageKey(q.post.imageurl) ELSE Null

\* EditUpdateOk without the cleanup of the old object
EditUpdateOk_NoCleanup(r) ==
    LET q == inflight[r]
    IN  /\ q.type = "edit" /\ q.pc = "update"
        /\ posts' = [posts EXCEPT ![q.id] = UpdatedRow(@, q)]
        /\ Finish(r, AddCall(q, "update", Null, TRUE), Redirect("/post/", q.id))
        /\ UNCHANGED <<supabase, nextId, store, objects, now, started, quota, capacity, clientFiles, tracing, page>>

EditUpdateOk(r) ==
    LET q == inflight[r]
        q1 == AddCall(q, "update", Null, TRUE)
    IN  /\ q.type = "edit" /\ q.pc = "update"
        /\ posts' = [posts EXCEPT ![q.id] = UpdatedRow(@, q)]
        /\ IF OldKeyToRemove(q) # Null
           THEN Await(r, q1, "remove")
           ELSE Finish(r, q1, Redirect("/post/", q.id))
        /\ UNCHANGED <<supabase, nextId, store, objects, now, started, quota, capacity, clientFiles, tracing, page>>

\* EditUpdateFail with the cleanup no longer behind the completed UPDATE
EditUpdateFail_StillCleans(r) ==
    LET q == inflight[r]
    IN  /\ q.type = "edit" /\ q.pc = "update"
        /\ Await(r, AddCall(q, "update", Null, FALSE), "remove")
        /\ UNCHANGED <<supabase, posts, nextId, store, objects, now, started, quota, capacity, clientFiles, tracing, page>>

\* the UPDATE throws: the handler's catch renders the generic error
EditUpdateFail(r) ==
    LET q == inflight[r]
    IN  /\ q.type = "edit" /\ q.pc = "update"
        /\ Finish(r, AddCall(q, "update", Null, FALSE),
                  Render("edit-post", 200, <<MSG_INTERNAL>>, << >>, q.title, q.body, NoRow))
        /\ UNCHANGED <<supabase, posts, nextId, store, objects, now, started, quota, capacity, clientFiles, tracing, page>>

EditRemoveOk(r) ==
    LET q == inflight[r]
    IN  /\ q.type = "edit" /\ q.pc = "remove"
        /\ store' = store \ {OldKeyToRemove(q)}
        /\ objects' = [k \in store \ {OldKeyToRemove(q)} |-> objects[k]]
        /\ Finish(r, AddCall(q, "remove", OldKeyToRemove(q), TRUE), Redirect("/post/", q.id))
        /\ UNCHANGED <<supabase, posts, nextId, now, started, quota, capacity, clientFiles, tracing, page>>

\* EditRemoveFail with the failure reaching the handler's catch block
EditRemoveFail_Propagates(r) ==
    LET q == inflight[r]
    IN  /\ q.type = "edit" /\ q.pc = "remove"
        /\ Finish(r, AddCall(q, "remove", OldKeyToRemove(q), FALSE),
                  Render("edit-post", 200, <<MSG_INTERNAL>>, << >>, q.title, q.body, NoRow))
        /\ UNCHANGED <<supabase, posts, nextId, store, objects, now, started, quota, capacity, clientFiles, tracing, page>>

\* remove reports an error or throws: logged, the redirect follows
EditRemoveFail(r) ==
    LET q == inflight[r]
    IN  /\ q.type = "edit" /\ q.pc = "remove"
        /\ Finish(r, AddCall(q, "remove", OldKeyToRemove(q), FALSE), Redirect("/post/", q.id))
        /\ UNCHANGED <<supabase, posts, nextId, store, objects, now, started, quota, capacity, clientFiles, tracing, page>>

\* GET /edit-post/:id
EditForm(r, user, id) ==
    /\ Arrive(r)
    /\ LET post == posts[id]
           q == [NewReq("editform", user, id, <<"", "">>, NoFile) EXCEPT !.post = post]
       IN  IF user = NoUser \/ ~post.present \/ ~Owns(post, user)
           THEN Finish(r, q, Redirect("/", 0))
           ELSE Finish(r, q, Render("edit-post", 200, << >>, << >>, "", "", post))
    /\ UNCHANGED <<supabase, posts, nextId, store, objects, now, quota, capacity, clientFiles, tracing, page>>

\* ------------------------------------------------------------- delete-post
DeleteNotLoggedIn(r, id) ==
    /\ Arrive(r)
    /\ Finish(r, NewReq("delete", NoUser, id, <<"", "">>, NoFile), Redirect("/", 0))
    /\ UNCHANGED <<supabase, posts, nextId, store, objects, now, quota, capacity, clientFiles, tracing, page>>

\* the SELECT throws; the handler has no try/catch
DeleteSelectFail(r, user, id) ==
    /\ Arrive(r)
    /\ Finish(r, NewReq("delete", user, id, <<"", "">>, NoFile), Unanswered)
    /\ UNCHANGED <<supabase, posts, nextId, store, objects, now, quota, capacity, clientFiles, tracing, page>>

DeleteBegin(r, user, id) ==
    /\ Arrive(r)
    /\ LET post == posts[id]
           q == [NewReq("delete", user, id, <<"", "">>, NoFile) EXCEPT !.post = post]
       IN  IF ~post.present
           THEN Finish(r, q, Redirect("/", 0))
           ELSE IF ~Owns(post, user)
           THEN Finish(r, q, Redirect("/", 0))
           ELSE Await(r, q, "delete")
    /\ UNCHANGED <<supabase, posts, nextId, store, objects, now, quota, capacity, clientFiles, tracing, page>>

DeleteRowOk(r) ==
    LET q == inflight[r]
    IN  /\ q.type = "delete" /\ q.pc = "delete"
        /\ posts' = [posts EXCEPT ![q.id] = NoRow]
        /\ Finish(r, AddCall(q, "delete", Null, TRUE), Redirect("/", 0))
        /\ UNCHANGED <<supabase, nextId, store, objects, now, started, quota, capacity, clientFiles, tracing, page>>

DeleteRowFail(r) ==
    LET q == inflight[r]
    IN  /\ q.type = "delete" /\ q.pc = "delete"
        /\ Finish(r, AddCall(q, "delete", Null, FALSE), Unanswered)
        /\ UNCHANGED <<supabase, posts, nextId, store, objects, now, started, quota, capacity, clientFiles, tracing, page>>

\* ------------------------------------------------------------ specification
Next ==
    \/ Tick
    \/ \E r \in Reqs : CreateNotLoggedIn(r)
    \/ \E r \in Reqs, user \in Users, form \in Forms, file \in FilesOf(clientFiles) : CreateTooLarge(r, user, form, file)
    \/ \E r \in Reqs, user \in Users, form \in Forms, file \in FilesOf(clientFiles) : CreateBegin(r, user, form, file)
    \/ \E r \in Reqs : Transcode(r)
    \/ \E r \in Reqs : CreatePutOk(r)
    \/ \E r \in Reqs : CreatePutFail(r)
    \/ \E r \in Reqs : CreateInsertOk(r)
    \/ \E r \in Reqs : CreateInsertFail(r)
    \/ \E r \in Reqs, id \in 1..capacity : EditNotLoggedIn(r, id)
    \/ \E r \in Reqs, user \in Users, id \in 1..capacity, form \in Forms, file \in FilesOf(clientFiles) : EditTooLarge(r, user, id, form, file)
    \/ \E r \in Reqs, user \in Users, id \in 1..capacity, form \in Forms, file \in FilesOf(clientFiles) : EditSelectFail(r, user, id, form, file)
    \/ \E r \in Reqs, user \in Users, id \in 1..capacity, form \in Forms, file \in FilesOf(clientFiles) : EditBegin(r, user, id, form, file)
    \/ \E r \in Reqs : EditPutOk(r)
    \/ \E r \in Reqs : EditPutFail(r)
    \/ \E r \in Reqs : EditUpdateOk(r)
    \/ \E r \in Reqs : EditUpdateFail(r)
    \/ \E r \in Reqs : EditRemoveOk(r)
    \/ \E r \in Reqs : EditRemoveFail(r)
    \/ \E r \in Reqs, user \in Users \cup {NoUser}, id \in 1..capacity : EditForm(r, user, id)
    \/ \E r \in Reqs, id \in 1..capacity : DeleteNotLoggedIn(r, id)
    \/ \E r \in Reqs, user \in Users, id \in 1..capacity : DeleteSelectFail(r, user, id)
    \/ \E r \in Reqs, user \in Users, id \in 1..capacity : DeleteBegin(r, user, id)
    \/ \E r \in Reqs : DeleteRowOk(r)
    \/ \E r \in Reqs : DeleteRowFail(r)

Spec == Init /\ [][Next]_vars

SpecRace == InitRace /\ [][Next]_vars

\* the post that an earlier create-post of user 1 with the photo a.jpg
\* left behind, and its object
FirstKey == deriveKey(NAME_A, 0)

FirstPost == [present |-> TRUE, title |-> "T", body |-> "B", authorid |-> 1, imageurl |-> getPublicUrl(FirstKey)]

FirstObject == StoredObject(compressImage(Buffer(Photo(NAME_A)), IMAGE_JPEG), IMAGE_JPEG)

\* a configured deployment in the millisecond in which its first post was
\* created: the table has room for one post more, one request more will be
\* served, and photos come under two names
InitShare ==
    /\ supabase = TRUE
    /\ posts = [i \in PostIds |-> IF i = 1 THEN FirstPost ELSE NoRow] /\ nextId = 2
    /\ store = {FirstKey}
    /\ objects = [k \in {FirstKey} |-> FirstObject]
    /\ clientFiles = "ShareFiles"
    /\ capacity = MaxPosts + 1
    /\ now = 0
    /\ inflight = [r \in Reqs |-> Idle]
    /\ done = NoDone
    /\ started = 0
    /\ quota = MaxRequests + 1
    /\ tracing = FALSE
    /\ page = NoPage

SpecShare == InitShare /\ [][Next]_vars

\* the same deployment, serving one request fewer, with uploads of every kind
InitUpload ==
    /\ supabase = TRUE
    /\ posts = [i \in PostIds |-> IF i = 1 THEN FirstPost ELSE NoRow] /\ nextId = 2
    /\ store = {FirstKey}
    /\ objects = [k \in {FirstKey} |-> FirstObject]
    /\ clientFiles = "UploadFiles"
    /\ capacity = MaxPosts + 1
    /\ now = 0
    /\ inflight = [r \in Reqs |-> Idle]
    /\ done = NoDone
    /\ started = 0
    /\ quota = MaxRequests - 1
    /\ tracing = FALSE
    /\ page = NoPage

SpecUpload == InitUpload /\ [][Next]_vars

\* image URLs that rows written before the bucket was in use may hold: none,
\* a path on the server itself ("/uploads/a.jpg", no origin: new URL throws),
\* a URL of another host layout (no "public" segment), and one with a
\* single segment after "public"
URL_RELATIVE == <<"/", "u", "p", "l", "o", "a", "d", "s", "/">> \o NAME_A

URL_NO_MARKER == supabaseUrl \o <<"/", "i", "m", "a", "g", "e", "s", "/">> \o NAME_A

URL_SHORT == supabaseUrl \o PublicPath \o NAME_A

LegacyUrls == {Null, URL_RELATIVE, URL_NO_MARKER, URL_SHORT}

\* a configured deployment whose first post carries an image URL of an older
\* layout, or the URL of its object in the bucket; one request fewer is
\* served, the files come from OddFiles
InitLegacy ==
    /\ supabase = TRUE
    /\ \E u \in LegacyUrls \cup {getPublicUrl(FirstKey)} :
          /\ posts = [i \in PostIds |-> IF i = 1 THEN [FirstPost EXCEPT !.imageurl = u] ELSE NoRow]
          /\ store = IF u \in LegacyUrls THEN {} ELSE {FirstKey}
          /\ objects = [k \in (IF u \in LegacyUrls THEN {} ELSE {FirstKey}) |-> FirstObject]
    /\ nextId = 2
    /\ clientFiles = "OddFiles"
    /\ capacity = MaxPosts + 1
    /\ now = 0
    /\ inflight = [r \in Reqs |-> Idle]
    /\ done = NoDone
    /\ started = 0
    /\ quota = MaxRequests - 1
    /\ tracing = FALSE
    /\ page = NoPage

SpecLegacy == InitLegacy /\ [][Next]_vars

\* InitShare with two requests, which are traced
InitPair ==
    /\ supabase = TRUE
    /\ posts = [i \in PostIds |-> IF i = 1 THEN FirstPost ELSE NoRow] /\ nextId = 2
    /\ store = {FirstKey}
    /\ objects = [k \in {FirstKey} |-> FirstObject]
    /\ clientFiles = "ShareFiles"
    /\ capacity = MaxPosts + 1
    /\ now = 0
    /\ inflight = [r \in Reqs |-> Idle]
    /\ done = NoDone
    /\ started = 0
    /\ quota = MaxRequests
    /\ tracing = TRUE
    /\ page = NoPage

SpecPair == InitPair /\ [][Next]_vars

\* ------------------------------------------------- create-post page script
srv == <<supabase, posts, nextId, store, objects, now, inflight, done, started, quota, capacity, clientFiles, tracing>>

\* what the user may pick in the file input: nothing, a text file, an image
\* over the limit, one of two photos
Picks ==
    {NoPick,
     [name |-> "notes.txt", type |-> TEXT_PLAIN, size |-> 1024],
     [name |-> "huge.jpg", type |-> IMAGE_JPEG, size |-> MAX_BYTES + 1],
     [name |-> "a.jpg", type |-> IMAGE_JPEG, size |-> 204800],
     [name |-> "b.jpg", type |-> IMAGE_JPEG, size |-> 204800]}

\* the public URLs /api/finalize-upload may answer with
PublicUrls == {"https://project.supabase.co/1.webp", "https://project.supabase.co/2.webp"}

MSG_NOT_IMAGE == "Selected file is not an image."

MSG_FILE_TOO_LARGE == "Selected file is too large. Maximum allowed size is 10 MB."

PageOpen == page.pc \notin {"closed", "left"}

\* the 'input' listener of title and body: saveDraft
PageInput ==
    /\ PageOpen
    /\ page' = [page EXCEPT !.draft = TRUE]
    /\ UNCHANGED srv

\* the 'change' listener of the file input
PageChange(f) ==
    /\ PageOpen
    /\ page' = IF f = NoPick
               THEN [page EXCEPT !.selectedFile = NoPick, !.uploadedImageUrl = "null"]
               ELSE IF ~IsImageType(f.type)
               THEN [page EXCEPT !.error = MSG_NOT_IMAGE, !.uploadedImageUrl = "null", !.selectedFile = NoPick]
               ELSE IF f.size > MAX_BYTES
               THEN [page EXCEPT !.error = MSG_FILE_TOO_LARGE, !.uploadedImageUrl = "null", !.selectedFile = NoPick]
               ELSE [page EXCEPT !.error = "", !.uploadedImageUrl = "null", !.selectedFile = f]
    /\ UNCHANGED srv

\* the 'submit' listener up to its first await; a disabled submit button
\* lets no submit event through.  With a file selected and not uploaded the
\* event is cancelled and the upload begins; otherwise the draft goes and
\* the browser submits the form
PageSubmit ==
    /\ PageOpen
    /\ ~page.disabled
    /\ page.submits < MaxSubmits
    /\ page' = IF page.selectedFile # NoPick /\ page.uploadedImageUrl = "null"
               THEN [page EXCEPT !.disabled = TRUE, !.pc = "compress", !.log = << >>, !.submits = @ + 1]
               ELSE [page EXCEPT !.draft = FALSE, !.pc = "left", !.submits = @ + 1,
                                 !.sent = [how |-> "native", imageUrl |-> page.hidden]]
    /\ UNCHANGED srv

\* PageCatch leaving the submit button disabled
PageCatch_LeavesDisabled(msg) ==
    [page EXCEPT !.error = msg, !.pc = "idle"]

\* the catch block of the submit listener: the message is shown and the
\* submit button enabled again
PageCatch(msg) ==
    [page EXCEPT !.error = msg, !.disabled = FALSE, !.pc = "idle"]

\* uploadImageDirect: compressImage(file) resolves or rejects
PageCompress(ok) ==
    /\ page.pc = "compress"
    /\ page' = IF ok THEN [page EXCEPT !.pc = "upload-url", !.log = Append(@, "compress")]
               ELSE PageCatch("Image load failed")
    /\ UNCHANGED srv

\* uploadImageDirect: POST /api/upload-url answers
PageGetUploadUrl(ok) ==
    /\ page.pc = "upload-url"
    /\ page' = IF ok THEN [page EXCEPT !.pc = "put", !.log = Append(@, "upload-url")]
               ELSE PageCatch("Failed to get upload URL")
    /\ UNCHANGED srv

\* uploadImageDirect: the PUT of the blob to the signed URL answers
PagePutBlob(ok) ==
    /\ page.pc = "put"
    /\ page' = IF ok THEN [page EXCEPT !.pc = "finalize", !.log = Append(@, "put")]
               ELSE PageCatch("Upload failed")
    /\ UNCHANGED srv

\* uploadImageDirect: POST /api/finalize-upload answers; with the public URL
\* the listener adds the hidden input, drops the draft and submits the form
PageFinalize(ok, publicUrl) ==
    /\ page.pc = "finalize"
    /\ page' = IF ok
               THEN [page EXCEPT !.pc = "left", !.log = Append(@, "finalize"),
                                 !.uploadedImageUrl = publicUrl,
                                 !.hidden = Append(@, publicUrl),
                                 !.draft = FALSE,
                                 !.sent = [how |-> "programmatic", imageUrl |-> Append(page.hidden, publicUrl)]]
               ELSE PageCatch("Failed to finalize upload")
    /\ UNCHANGED srv

NextPage ==
    \/ PageInput
    \/ \E f \in Picks : PageChange(f)
    \/ PageSubmit
    \/ \E ok \in BOOLEAN : PageCompress(ok)
    \/ \E ok \in BOOLEAN : PageGetUploadUrl(ok)
    \/ \E ok \in BOOLEAN : PagePutBlob(ok)
    \/ \E ok \in BOOLEAN, publicUrl \in PublicUrls : PageFinalize(ok, publicUrl)

\* the page just loaded, with or without a draft of an earlier visit, next
\* to a server that is serving no request
InitPage ==
    /\ supabase = TRUE
    /\ posts = [i \in PostIds |-> NoRow] /\ nextId = 1
    /\ store = {}
    /\ objects = << >>
    /\ clientFiles = "Files"
    /\ capacity = MaxPosts
    /\ now = 0
    /\ inflight = [r \in Reqs |-> Idle]
    /\ done = NoDone
    /\ started = 0
    /\ quota = 0
    /\ tracing = FALSE
    /\ \E d \in BOOLEAN : page = [NoPage EXCEPT !.pc = "idle", !.draft = d]

SpecPage == InitPage /\ [][NextPage]_vars

TypeOK ==
    /\ supabase \in BOOLEAN
    /\ tracing \in BOOLEAN
    /\ page.pc \in {"closed", "idle", "compress", "upload-url", "put", "finalize", "left"}
    /\ page.submits \in 0..MaxSubmits
    /\ capacity \in 1..(MaxPosts + 1)
    /\ nextId \in 1..(capacity + 1)
    /\ started \in 0..quota
    /\ now \in 0..MaxNow
    /\ DOMAIN objects = store
    /\ \A r \in Reqs : inflight[r].pc \in {"idle", "transcode", "put", "insert", "update", "remove", "delete"}

\* ------------------------------------------------------------------ claims
\* the storage object a post row's imageurl designates is in the bucket
Referenced(row) == row.present /\ row.imageurl # Null

ObjectExists(url) == extractStorageKey(url) \in store

\* C1: in every reachable state every post row whose imageurl is non-null
\* points at an object that currently exists in the store.
C1_NoDanglingReference ==
    \A id \in PostIds : Referenced(posts[id]) => ObjectExists(posts[id].imageurl)

\* a request ends in this step, and done' is its record: either it arrived
\* and was answered at once, or an awaited call of slot r returned
Ends ==
    \/ started' # started /\ inflight' = inflight
    \/ \E r \in Reqs : inflight[r].pc # "idle" /\ inflight'[r].pc = "idle"

Ops(d) == [i \in 1..Len(d.calls) |-> d.calls[i].op]

NoCall(d, op) == \A i \in 1..Len(d.calls) : d.calls[i].op # op

CountCalls(d, op) == Cardinality({i \in 1..Len(d.calls) : d.calls[i].op = op})

PutOk(d) == Len(d.calls) >= 1 /\ d.calls[1] = Call("put", d.key, TRUE)

PutFailed(d) == Len(d.calls) >= 1 /\ d.calls[1] = Call("put", d.key, FALSE)

\* the request got as far as calling uploadToSupabase with its file
ReachedUpload(d) ==
    /\ d.type \in {"create", "edit"}
    /\ d.user # NoUser
    /\ d.file.present /\ ~MulterRejects(d.file)
    /\ share(d.title, d.body) = << >>
    /\ d.type = "edit" => d.post.present /\ d.post.authorid = d.user

\* the upload failed: the client is not configured, or the put reported an error
UploadFailed(d) == ReachedUpload(d) /\ (~supabase \/ PutFailed(d))

\* C2: when the store upload of an owner's edit-post fails, the post row is
\* left exactly as it was (imageurl, title and body keep their values) and
\* the request issues no UPDATE and no store remove.
C2_EditUploadFailureLeavesRow ==
    [][(Ends /\ done'.type = "edit" /\ UploadFailed(done'))
        => /\ posts' = posts
           /\ store' = store
           /\ NoCall(done', "update")
           /\ NoCall(done', "remove")]_vars

C2_Witness ==
    /\ done.type = "edit" /\ PutFailed(done)
    /\ posts[done.id].present
    /\ posts[done.id].imageurl = done.post.imageurl
    /\ posts[done.id].imageurl # Null
    /\ posts[done.id].title # done.title
    /\ posts[done.id].body # done.body

\* C3: when the store upload of a create-post fails for any reason
\* (unconfigured client, remote error, key conflict), no post row is inserted
\* and the response carries an image field error.
C3_CreateUploadFailureInsertsNothing ==
    [][(Ends /\ done'.type = "create" /\ UploadFailed(done'))
        => /\ posts' = posts
           /\ nextId' = nextId
           /\ NoCall(done', "insert")
           /\ done'.res.kind = "render"
           /\ done'.res.view = "create-post"
           /\ done'.res.imageErrors # << >>]_vars

C3_Witness ==
    /\ done.type = "create" /\ PutFailed(done)
    /\ done.key \in store
    /\ done.res.imageErrors = <<MSG_UPLOAD_FAILED>>

\* C4: a create-post with valid title and body but no file is rejected: no
\* post row is inserted and no store call (put or remove) is made.
C4_CreateWithoutFileRejected ==
    [][(Ends /\ done'.type = "create" /\ done'.user # NoUser
          /\ share(done'.title, done'.body) = << >> /\ ~done'.file.present)
        => /\ posts' = posts
           /\ nextId' = nextId
           /\ store' = store
           /\ done'.calls = << >>
           /\ done'.res.kind = "render"
           /\ done'.res.view = "create-post"
           /\ done'.res.imageErrors = <<MSG_NEED_IMAGE>>]_vars

C4_Witness ==
    /\ done.type = "create" /\ done.user # NoUser
    /\ share(done.title, done.body) = << >> /\ ~done.file.present
    /\ done.res.imageErrors = <<MSG_NEED_IMAGE>>

\* the rows that exist after the step and did not exist before it
Inserted == {id \in PostIds : ~posts[id].present /\ posts'[id].present}

\* C5 as stated: a create-post whose upload succeeds inserts exactly one row.
C5_Original ==
    (done.type = "create" /\ PutOk(done))
        => Ops(done) = <<"put", "insert">> /\ done.calls[2].ok

\* C5 (amended): a create-post whose upload succeeds and whose INSERT does
\* not fail inserts exactly one row, whose imageurl is the public URL of the
\* key that was just put; a failed INSERT inserts nothing; and an INSERT is
\* issued only after the put has succeeded.
C5_CreateInsertsUploadedUrl ==
    [][(Ends /\ done'.type = "create" /\ PutOk(done'))
        => /\ Ops(done') = <<"put", "insert">>
           /\ done'.key \in store
           /\ IF done'.calls[2].ok
              THEN /\ Inserted = {done'.id}
                   /\ \A id \in PostIds \ {done'.id} : posts'[id] = posts[id]
                   /\ posts'[done'.id].imageurl = getPublicUrl(done'.key)
                   /\ extractStorageKey(posts'[done'.id].imageurl) = done'.key
              ELSE posts' = posts]_vars

C5_Witness ==
    /\ done.type = "create" /\ PutOk(done)
    /\ Ops(done) = <<"put", "insert">> /\ done.calls[2].ok
    /\ posts[done.id].imageurl = getPublicUrl(done.key)

\* C6 as stated: an owner's edit-post (of a post that has an old object)
\* whose upload succeeds updates the row and attempts the remove of the old
\* object exactly once.
C6_Original ==
    (done.type = "edit" /\ PutOk(done) /\ extractStorageKey(done.post.imageurl) # Null)
        => /\ Len(done.calls) >= 2 /\ done.calls[2] = Call("update", Null, TRUE)
           /\ CountCalls(done, "remove") = 1

\* the UPDATE of the edit in slot r completed without error in this step
UpdateCompleted(r) ==
    /\ inflight[r].type = "edit" /\ inflight[r].pc = "update"
    /\ \/ inflight'[r].pc = "remove"
       \/ inflight'[r].pc = "idle" /\ done'.calls[2].ok

C6_AtUpdate ==
    \A r \in Reqs : UpdateCompleted(r) =>
        LET q == inflight[r]
        IN  /\ \A id \in PostIds \ {q.id} : posts'[id] = posts[id]
            /\ posts'[q.id].present = posts[q.id].present
            /\ posts[q.id].present =>
                 /\ posts'[q.id].imageurl = getPublicUrl(q.key)
                 /\ posts'[q.id].title = q.title
                 /\ posts'[q.id].body = q.body

C6_AtEnd ==
    (Ends /\ done'.type = "edit" /\ PutOk(done')) =>
        LET d == done'
            oldKey == extractStorageKey(d.post.imageurl)
        IN  /\ Len(d.calls) >= 2 /\ d.calls[2].op = "update"
            /\ CountCalls(d, "put") = 1
            /\ CountCalls(d, "update") = 1
            /\ IF d.calls[2].ok /\ oldKey # Null
               THEN /\ CountCalls(d, "remove") = 1
                    /\ Len(d.calls) = 3
                    /\ d.calls[3].key = oldKey
               ELSE /\ CountCalls(d, "remove") = 0
                    /\ store' = store

\* C6 (amended): in an owner's edit-post whose upload succeeds, when the
\* UPDATE completes the row (if it still exists) carries the new URL, title
\* and body, and the remove of the key extracted from the pre-edit imageurl
\* is attempted exactly once if that imageurl is non-null and its key is
\* recoverable, and not at all otherwise; when the UPDATE fails no remove is
\* attempted.
C6_EditRemovesOldObjectOnce == [][C6_AtUpdate /\ C6_AtEnd]_vars

C6_Witness ==
    /\ done.type = "edit" /\ PutOk(done)
    /\ Ops(done) = <<"put", "update", "remove">>
    /\ done.post.imageurl # Null
    /\ done.calls[3].key = extractStorageKey(done.post.imageurl)
    /\ posts[done.id].imageurl = getPublicUrl(done.key)

\* the calls of an edit come in the order put, UPDATE, remove, each issued
\* only after the one before it succeeded
C7_Log(d) ==
    d.type = "edit" =>
        /\ Ops(d) \in {<< >>, <<"put">>, <<"put", "update">>, <<"put", "update", "remove">>}
        /\ Len(d.calls) >= 2 => d.calls[1].ok
        /\ Len(d.calls) >= 3 => d.calls[2].ok

\* what a step of an edit may change, by the call it was awaiting
C7_Step ==
    \A r \in Reqs :
        (inflight[r].type = "edit" /\ inflight'[r] # inflight[r]) =>
            LET q == inflight[r]
            IN  /\ posts' # posts => q.pc = "update" /\ PutOk(q) /\ q.key \in store
                /\ store' # store /\ store' \subseteq store =>
                     /\ q.pc = "remove"
                     /\ Ops(q) = <<"put", "update">>
                     /\ q.calls[2].ok
                /\ store' # store /\ store \subseteq store' => q.pc = "put"

\* C7: within one edit-post request the steps are ordered put -> UPDATE ->
\* remove: the UPDATE is issued only after the put succeeded and the old
\* object is removed only after the UPDATE has completed.
C7_PutUpdateRemoveOrder ==
    [][C7_Step /\ C7_Log(done') /\ \A r \in Reqs : C7_Log(inflight'[r])]_vars

C7_Witness ==
    /\ done.type = "edit"
    /\ Ops(done) = <<"put", "update", "remove">>
    /\ done.calls[3].ok
    /\ extractStorageKey(done.post.imageurl) \notin store
    /\ posts[done.id].imageurl = done.newImageUrl

\* C8: an owner's delete-post removes the row and then attempts a store
\* delete with the key extracted from the row's stored imageurl.
C8_DeleteRemovesObject ==
    (/\ done.type = "delete"
     /\ done.post.present /\ done.post.authorid = done.user
     /\ done.post.imageurl # Null
     /\ Len(done.calls) >= 1 /\ done.calls[1] = Call("delete", Null, TRUE))
        => /\ Ops(done) = <<"delete", "remove">>
           /\ done.calls[2].key = extractStorageKey(done.post.imageurl)

\* the post the request names is missing or belongs to somebody else
NotTheOwners(d) ==
    /\ d.type \in {"edit", "delete", "editform"}
    /\ d.user # NoUser
    /\ ~d.post.present \/ d.post.authorid # d.user

\* C9: an edit-post or delete-post on a post that does not exist or whose
\* authorid differs from the requester is stopped by the ownership check
\* before validation, upload and any write: it ends in the step that read
\* the post, answers with no validation or upload message, and changes no
\* post row and no store object.
C9_NonOwnerChangesNothing ==
    [][(Ends /\ NotTheOwners(done'))
        => /\ started' # started
           /\ posts' = posts
           /\ nextId' = nextId
           /\ store' = store
           /\ done'.calls = << >>
           /\ \A i \in 1..Len(done'.res.errors) : done'.res.errors[i] \notin {MSG_TITLE, MSG_BODY}
           /\ done'.res.imageErrors \notin {<<MSG_NEED_IMAGE>>, <<MSG_UPLOAD_FAILED>>}]_vars

C9_Witness ==
    /\ done.type = "edit" /\ done.user # NoUser
    /\ done.post.present /\ done.post.authorid # done.user
    /\ done.file.present /\ done.file.size <= MaxUploadBytes
    /\ share(done.title, done.body) = << >>
    /\ supabase
    /\ done.res = Redirect("/", 0)

\* C10: the response to an edit or delete of another user's post is the
\* redirect to "/" that a missing post id gets, on every path; it never
\* carries the other user's post.
C10_ForeignPostLooksMissing ==
    (/\ done.type \in {"edit", "delete", "editform"}
     /\ done.user # NoUser
     /\ done.post.present /\ done.post.authorid # done.user)
        => done.res = Redirect("/", 0)

\* a create or edit of a logged-in user whose file is over the size limit
Oversized(d) ==
    /\ d.type \in {"create", "edit"}
    /\ d.user # NoUser
    /\ d.file.present /\ d.file.size > MaxUploadBytes

\* C11: a create or edit whose uploaded file exceeds the maximum upload size
\* is rejected as it arrives, before transcoding and before any store put;
\* no post row is inserted or updated; the response carries the 'too large'
\* message, which is not the generic upload-failure message.
C11_OversizedRejectedEarly ==
    [][(Ends /\ Oversized(done'))
        => /\ started' # started
           /\ posts' = posts
           /\ nextId' = nextId
           /\ store' = store
           /\ objects' = objects
           /\ done'.calls = << >>
           /\ done'.buffer = NoBuffer
           /\ done'.key = Null
           /\ done'.res.kind = "render"
           /\ done'.res.status = 400
           /\ done'.res.view = (IF done'.type = "create" THEN "create-post" ELSE "edit-post")
           /\ done'.res.imageErrors = <<MSG_TOO_LARGE>>
           /\ done'.res.errors = << >>
           /\ MSG_TOO_LARGE # MSG_UPLOAD_FAILED]_vars

C11_Witness ==
    /\ Oversized(done)
    /\ done.type = "edit"
    /\ done.post.present /\ done.post.authorid = done.user
    /\ share(done.title, done.body) = << >>
    /\ supabase
    /\ done.res.imageErrors = <<MSG_TOO_LARGE>>

\* C12: when the store client is not configured, every create or edit that
\* carries a file ends as it arrives, before transcoding and before any
\* store or database call: no post row is inserted or updated, it is never
\* answered with the success redirect, and one that got as far as the upload
\* is answered with the image field error.
C12_UnconfiguredFailsFast ==
    [][~supabase =>
        /\ \A r \in Reqs : inflight'[r].type \notin {"create", "edit"}
        /\ (Ends /\ done'.type \in {"create", "edit"} /\ done'.user # NoUser /\ done'.file.present)
             => /\ started' # started
                /\ posts' = posts
                /\ nextId' = nextId
                /\ store' = store
                /\ objects' = objects
                /\ done'.calls = << >>
                /\ done'.buffer = NoBuffer
                /\ done'.key = Null
                /\ done'.res.to # "/post/"
                /\ ReachedUpload(done') =>
                     /\ done'.res.kind = "render"
                     /\ done'.res.imageErrors = <<MSG_UPLOAD_FAILED>>]_vars

C12_Witness ==
    /\ ~supabase
    /\ done.type = "edit"
    /\ ReachedUpload(done)
    /\ done.calls = << >>
    /\ done.res.imageErrors = <<MSG_UPLOAD_FAILED>>
    /\ posts[done.id] = done.post

\* the edit's upload succeeded and its UPDATE completed without error
UploadedAndUpdated(d) ==
    /\ d.type = "edit" /\ PutOk(d)
    /\ Len(d.calls) >= 2 /\ d.calls[2] = Call("update", Null, TRUE)

\* C13: in an edit whose upload and UPDATE succeeded, neither a failed
\* remove of the old object nor an old key that cannot be recovered is
\* propagated: the request is answered with the redirect to the post; the
\* step in which the remove returns changes no post row (no rollback), and
\* when no remove is issued the request ends in the step of its UPDATE.
C13_CleanupFailureNotPropagated ==
    [][(Ends /\ UploadedAndUpdated(done'))
        => /\ done'.res = Redirect("/post/", done'.id)
           /\ IF Len(done'.calls) = 3
              THEN /\ done'.calls[3].op = "remove"
                   /\ posts' = posts
                   /\ ~done'.calls[3].ok => store' = store /\ objects' = objects
              ELSE /\ OldKeyToRemove(done') = Null
                   /\ posts' = [posts EXCEPT ![done'.id] = UpdatedRow(@, done')]
                   /\ store' = store]_vars

C13_Witness ==
    /\ UploadedAndUpdated(done)
    /\ Ops(done) = <<"put", "update", "remove">>
    /\ ~done.calls[3].ok
    /\ done.calls[3].key \in store
    /\ posts[done.id].title = done.title
    /\ posts[done.id].body = done.body
    /\ posts[done.id].imageurl = done.newImageUrl
    /\ posts[done.id] # done.post
    /\ done.res = Redirect("/post/", done.id)

\* C14: no two post rows ever hold the same non-null imageurl.
C14_NoSharedReference ==
    \A i, j \in PostIds :
        (i # j /\ Referenced(posts[i]) /\ Referenced(posts[j])) => posts[i].imageurl # posts[j].imageurl

\* C15: the key extracted from the public URL of a derived key is that key,
\* for the key of every upload.
C15_RoundTrip ==
    \A r \in Reqs :
        inflight[r].key # Null => extractStorageKey(getPublicUrl(inflight[r].key)) = inflight[r].key

\* compressImage returns in this step, for the upload of slot r
Transcoded(r) == inflight[r].pc = "transcode" /\ inflight'[r].pc = "put"

\* C16: compressImage returns the buffer it was given, byte for byte,
\* whenever the declared type does not start with 'image/' or the buffer is
\* shorter than 100,000 bytes; only an image type of at least 100,000 bytes
\* comes back re-encoded.
C16_SmallOrNonImageUnchanged ==
    [][\A r \in Reqs : Transcoded(r) =>
        LET file == inflight[r].file
            out == inflight'[r].buffer
        IN  /\ out = compressImage(Buffer(file), file.mimetype)
            /\ (file.mimetype[1] # "image/" \/ file.size < CompressThreshold) => out = Buffer(file)
            /\ out # Buffer(file) =>
                 /\ file.mimetype[1] = "image/"
                 /\ file.size >= CompressThreshold
                 /\ out.content = "reencoded"]_vars

C16_Witness ==
    /\ done.type = "create" /\ PutOk(done)
    /\ done.file.mimetype = IMAGE_JPEG
    /\ done.file.decodable
    /\ done.file.size = CompressThreshold - 1
    /\ done.buffer = Buffer(done.file)
    /\ done.key \in store
    /\ objects[done.key].body.content = "original"

\* C17: compressImage never fails its caller: when sharp throws, it returns
\* the buffer it was given and uploadToSupabase goes on to put those bytes;
\* every upload that reaches compressImage reaches the put, and an upload is
\* answered with an image error only when the client is not configured or
\* the put itself failed.
C17_TranscodeFailureMasked ==
    [][/\ \A r \in Reqs :
            (inflight[r].pc = "transcode" /\ inflight'[r] # inflight[r]) =>
                /\ inflight'[r].pc = "put"
                /\ ~inflight[r].file.decodable => inflight'[r].buffer = Buffer(inflight[r].file)
       /\ \A r \in Reqs :
            (inflight[r].pc = "put" /\ inflight'[r].pc \in {"insert", "update"}) =>
                /\ inflight[r].key \in store' \ store
                /\ objects'[inflight[r].key].body = inflight[r].buffer
       /\ (Ends /\ ReachedUpload(done') /\ done'.res.imageErrors # << >>) => UploadFailed(done')]_vars

C17_Witness ==
    /\ done.type = "edit" /\ PutOk(done)
    /\ IsImageType(done.file.mimetype)
    /\ ~done.file.decodable
    /\ done.file.size >= CompressThreshold
    /\ done.key \in store
    /\ objects[done.key].body = Buffer(done.file)
    /\ posts[done.id].imageurl = getPublicUrl(done.key)
    /\ done.res = Redirect("/post/", done.id)

\* the content types the transcoder's encoders produce
EncoderTypes == {IMAGE_JPEG, IMAGE_PNG, IMAGE_WEBP}

\* C18: every object put by create or edit is stored with the content type
\* of the bytes that were put; for bytes the transcoder re-encoded that is
\* one of image/jpeg, image/png and image/webp.
C18_StoredContentType ==
    \A k \in store :
        /\ objects[k].contentType = objects[k].body.format
        /\ objects[k].body.content = "reencoded" => objects[k].contentType \in EncoderTypes

\* an edit by the post's owner that carries no file
OwnerEditWithoutFile(d) ==
    /\ d.type = "edit"
    /\ d.user # NoUser
    /\ d.post.present /\ d.post.authorid = d.user
    /\ ~d.file.present

C20_EditFailuresCaught ==
    (done.type = "edit" /\ done.user # NoUser) => done.res.kind \in {"redirect", "render"}

\* the upload of a create or edit succeeded and the database write that
\* followed it (the INSERT, the UPDATE) failed
WriteFailedAfterUpload(d) ==
    /\ d.type \in {"create", "edit"}
    /\ PutOk(d)
    /\ Len(d.calls) >= 2 /\ d.calls[2].op \in {"insert", "update"} /\ ~d.calls[2].ok

\* C25: when the upload succeeded and the database write that follows it
\* (INSERT on create, UPDATE on edit) fails, the request attempts a delete
\* of the object it has just uploaded.
C25_FailedWriteCleansUpload ==
    WriteFailedAfterUpload(done)
        => \E i \in 1..Len(done.calls) : done.calls[i].op = "remove" /\ done.calls[i].key = done.key

\* C27: every create-post and delete-post of a logged-in user ends with a
\* response, a render or a redirect, also when the INSERT, the SELECT or the
\* DELETE fails.
C27_CreateDeleteAnswered ==
    (done.type \in {"create", "delete"} /\ done.user # NoUser) => done.res.kind \in {"redirect", "render"}

\* a create or edit of a logged-in user whose title or body is empty once
\* trimmed and stripped of tags
InvalidForm(d) ==
    /\ d.type \in {"create", "edit"}
    /\ d.user # NoUser
    /\ share(d.title, d.body) # << >>

\* C26 as stated: every such request is answered with the validation errors.
C26_Original ==
    InvalidForm(done)
        => /\ done.res.kind = "render"
           /\ done.res.errors = share(done.title, done.body)
           /\ done.calls = << >>

\* the request got as far as share(req): multer let its file through and,
\* for an edit, the SELECT returned a post of the requester's
ReachedValidation(d) ==
    /\ ~MulterRejects(d.file)
    /\ d.type = "edit" => d.post.present /\ d.post.authorid = d.user

\* C26 (amended): a create or edit whose title or body is empty ends as it
\* arrives, with or without a file: no transcode, no store put, no store
\* remove and no database write; no request with such a form is ever in
\* flight; and when the request got as far as the validation it is answered
\* with the form and its validation errors, and with no image error.
C26_ValidationBeforeStorage ==
    [][/\ \A r \in Reqs : inflight'[r].type \in {"create", "edit"} => share(inflight'[r].title, inflight'[r].body) = << >>
       /\ (Ends /\ InvalidForm(done'))
            => /\ started' # started
               /\ posts' = posts
               /\ nextId' = nextId
               /\ store' = store
               /\ objects' = objects
               /\ done'.calls = << >>
               /\ done'.buffer = NoBuffer
               /\ done'.key = Null
               /\ ReachedValidation(done') =>
                    /\ done'.res.kind = "render"
                    /\ done'.res.view = (IF done'.type = "create" THEN "create-post" ELSE "edit-post")
                    /\ done'.res.errors = share(done'.title, done'.body)
                    /\ done'.res.imageErrors = << >>
                    /\ done'.res.title = done'.title /\ done'.res.body = done'.body]_vars

C26_Witness ==
    /\ InvalidForm(done)
    /\ done.type = "create"
    /\ done.file.present /\ done.file.size <= MaxUploadBytes
    /\ supabase
    /\ done.res.errors = <<MSG_TITLE>>
    /\ done.calls = << >>

\* the DELETE of the delete-post in slot r removed the row in this step
RowDeleted(r) ==
    /\ inflight[r].type = "delete" /\ inflight[r].pc = "delete"
    /\ inflight'[r].pc = "idle" /\ done'.calls = <<Call("delete", Null, TRUE)>>

\* the edit in slot r, which read the post as its owner, gets the answer to
\* its UPDATE in this step, when the row is no longer there
UpdateAfterDelete(r) ==
    /\ inflight[r].type = "edit" /\ inflight[r].pc = "update"
    /\ inflight'[r] # inflight[r]
    /\ ~posts[inflight[r].id].present

\* C29: when a delete-post and an edit-post of the owner run concurrently
\* on one post, the row is gone once the DELETE has removed it and never
\* comes back: a row appears only under a fresh id, by an INSERT; the UPDATE
\* of an edit that finds the row gone changes no row and the edit goes on to
\* its cleanup and its response; every edit that was in flight is answered.
C29_DeleteWinsOverEdit ==
    [][/\ \A id \in PostIds :
            (~posts[id].present /\ posts'[id].present) => id = nextId /\ nextId' = nextId + 1
       /\ \A r \in Reqs : RowDeleted(r) => ~posts'[inflight[r].id].present
       /\ \A r \in Reqs : UpdateAfterDelete(r) =>
            /\ posts' = posts
            /\ inflight'[r].pc \in {"remove", "idle"}
       /\ \A r \in Reqs :
            (inflight[r].type = "edit" /\ inflight'[r].pc = "idle")
                => done'.res.kind \in {"redirect", "render"}]_vars

\* an edit that read the row, whose UPDATE was its last step and succeeded,
\* has ended, and the row is gone: the DELETE came between the two
C29_Witness ==
    /\ done.type = "edit"
    /\ done.post.present /\ done.post.authorid = done.user
    /\ Ops(done) = <<"put", "update">> /\ done.calls[2].ok
    /\ ~posts[done.id].present
    /\ done.key \in store
    /\ done.res = Redirect("/post/", done.id)

\* the key the claim describes: the extension is the text from the last '.'
\* on, whatever its case; the base is the name without it, sanitised
ClaimedKey(originalname, t) ==
    LET E == toLowerCase(extname(originalname))
        B == sanitizeBase(SubSeq(originalname, 1, Len(originalname) - Len(E)))
    IN  POSTS_PREFIX \o NatToStr(t) \o <<"_">> \o B \o E

\* C23: the key derived for an upload is posts/<unixMillis>_<B><E>, E the
\* extension in lower case and B the sanitised file name without its
\* extension, the extension being recognised whatever its case.
C23_KeyFormat ==
    \A r \in Reqs :
        inflight[r].key # Null =>
            \E t \in 0..MaxNow : inflight[r].key = ClaimedKey(inflight[r].file.originalname, t)

\* C24: extractStorageKey returns none for an empty URL, for one that cannot
\* be parsed, for one with no 'public' segment and for one with fewer than
\* two segments after 'public' (the URLs of LegacyUrls); an edit of a post
\* with such an imageurl issues no store remove, leaves the bucket as it is
\* but for its own upload, and ends with the redirect to the post once its
\* UPDATE has succeeded.
C24_UnrecoverableKeyNoRemove ==
    [][/\ \A u \in LegacyUrls : extractStorageKey(u) = Null
       /\ \A r \in Reqs :
            (inflight'[r].pc = "remove") => inflight'[r].post.imageurl \notin LegacyUrls
       /\ (Ends /\ UploadedAndUpdated(done') /\ done'.post.imageurl \in LegacyUrls)
            => /\ Ops(done') = <<"put", "update">>
               /\ store' = store
               /\ done'.key \in store'
               /\ done'.res = Redirect("/post/", done'.id)
               /\ posts'[done'.id].present => posts'[done'.id].imageurl = getPublicUrl(done'.key)]_vars

C24_Witness ==
    /\ UploadedAndUpdated(done)
    /\ done.post.imageurl = URL_NO_MARKER
    /\ Ops(done) = <<"put", "update">>
    /\ store = {done.key}
    /\ posts[done.id].imageurl = getPublicUrl(done.key)
    /\ done.res = Redirect("/post/", done.id)

\* C28: the 'Selected image is too large' message goes only to requests
\* whose file was over the size limit.
C28_TooLargeOnlyForOversized ==
    MSG_TOO_LARGE \in {done.res.imageErrors[i] : i \in 1..Len(done.res.imageErrors)} \cup {done.res.errors[i] : i \in 1..Len(done.res.errors)}
        => done.file.present /\ done.file.size > MaxUploadBytes

\* the post a request in flight works on: the row a create will insert, the
\* row an edit or a delete names
PostOf(q) == IF q.type = "create" THEN nextId ELSE q.id

\* C22: a step of a create, edit or delete on post P changes the row of no
\* other post Q and removes no store object that the imageurl of another
\* post Q designates.
C22_OtherPostsUntouched ==
    [][\A r \in Reqs :
          (inflight[r].pc # "idle" /\ inflight'[r] # inflight[r]) =>
              \A Q \in PostIds \ {PostOf(inflight[r])} :
                  /\ posts'[Q] = posts[Q]
                  /\ (Referenced(posts[Q]) /\ ObjectExists(posts[Q].imageurl))
                        => extractStorageKey(posts[Q].imageurl) \in store']_vars

\* the edit in slot o ends in this step, and it was in flight when the
\* request of `done`, an edit of the same post, ended; both uploaded and
\* both completed their UPDATE; no other request is in flight
ConcurrentEditsEnd(o) ==
    /\ inflight[o].type = "edit" /\ inflight[o].pc # "idle" /\ inflight'[o].pc = "idle"
    /\ o \in done.peers
    /\ UploadedAndUpdated(done) /\ UploadedAndUpdated(done')
    /\ done.id = done'.id
    /\ \A r \in Reqs : inflight'[r].pc = "idle"

\* C21: once two concurrent edits of one post that both uploaded have
\* finished, the row's imageurl is the URL one of them wrote (that of the
\* UPDATE that came last) and the object it designates is in the store.
C21_LastEditKeepsObject ==
    [][\A o \in Reqs : ConcurrentEditsEnd(o) =>
          LET row == posts'[done'.id]
          IN  row.present =>
                /\ row.imageurl \in {done.newImageUrl, done'.newImageUrl}
                /\ extractStorageKey(row.imageurl) \in store']_vars

\* the awaits of uploadImageDirect
UploadSteps == {"compress", "upload-url", "put", "finalize"}

\* a submit event arrives while a file is selected and not yet uploaded
SubmitWithFile ==
    /\ page'.submits # page.submits
    /\ page.selectedFile # NoPick /\ page.uploadedImageUrl = "null"

\* the direct upload fails at one of its steps
DirectUploadFails == page.pc \in UploadSteps /\ page'.pc = "idle"

\* C30: on the create-post page a submit with a file selected and not yet
\* uploaded is intercepted: nothing is submitted and the upload begins.  The
\* form is submitted by the script only in the step in which the last of
\* the upload steps succeeds, after all the others, with one hidden imageUrl
\* input that holds the public URL returned.  When a step fails nothing is
\* submitted, uploadedImageUrl is still null, the submit button is enabled
\* again, the draft is as it was and the selected file is still selected,
\* so the next submit is intercepted in its turn.
C30_DirectUploadBeforeSubmit ==
    [][/\ SubmitWithFile =>
            /\ page'.pc = "compress"
            /\ page'.disabled
            /\ page'.sent = NoSubmission
            /\ page'.draft = page.draft
       /\ (page'.sent.how = "programmatic" /\ page.sent = NoSubmission) =>
            /\ page.pc = "finalize"
            /\ page'.log = <<"compress", "upload-url", "put", "finalize">>
            /\ page'.uploadedImageUrl \in PublicUrls
            /\ page'.sent.imageUrl = <<page'.uploadedImageUrl>>
            /\ page'.pc = "left"
       /\ page.pc \in UploadSteps =>
            /\ page.sent = NoSubmission
            /\ page.uploadedImageUrl = "null"
            /\ page.disabled
       /\ DirectUploadFails =>
            /\ page'.sent = NoSubmission
            /\ page'.uploadedImageUrl = "null"
            /\ ~page'.disabled
            /\ page'.draft = page.draft
            /\ page'.hidden = << >>
            /\ page'.selectedFile = page.selectedFile
            /\ page'.error # ""]_vars

\* the second submit of a page whose first upload failed went through: the
\* form left with the URL of the retried upload, and the draft is gone
C30_Witness ==
    /\ page.sent.how = "programmatic"
    /\ page.submits = 2
    /\ page.selectedFile # NoPick
    /\ page.sent.imageUrl = <<page.uploadedImageUrl>>
    /\ page.log = <<"compress", "upload-url", "put", "finalize">>
    /\ page.error = "Upload failed"
    /\ ~page.draft

====
